---- MODULE Spec2Model ----
(***************************************************************************)
(* Model of src/error.rs: the proc-macro Error (a newtype around a         *)
(* TokenStream holding rendered compile_error! invocations) and the        *)
(* ErrorBuilder that chains several errors together.                       *)
(*                                                                         *)
(* A TokenStream is a sequence of tokens.  syn renders one error as the    *)
(* invocation  compile_error! { "message" } : the macro path and the `!`   *)
(* carry the start span, the brace group (with the string literal) the     *)
(* end span.  The path `::core::compile_error` is one token here.          *)
(***************************************************************************)
EXTENDS Integers, Sequences, FiniteSets, TLC

\* ---------------------------------------------------------------- bounds
MaxErrors == 3    \* errors alive at once (both builders and the held Error)
MaxSpans == 2     \* items of the iterator given to with_spans

\* ---------------------------------------------------------------- inputs
Spans == {"A"}
call_site == "call_site"
Messages == {"", "m"}
\* values implementing ToTokens, as the spans of their tokens
ToTokens == {<<"A">>, <<"B", "C">>}
RECURSIVE SeqsUpTo(_, _)
SeqsUpTo(S, n) ==
  IF n = 0 THEN {<<>>}
  ELSE LET R == SeqsUpTo(S, n - 1)
       IN R \cup {Append(r, x) : r \in {q \in R : Len(q) = n - 1}, x \in S}
TokenIters == SeqsUpTo(ToTokens, MaxSpans)

\* ---------------------------------------------------------------- tokens
TokenStream_new == <<>>
Ident(name, at) == [kind |-> "ident", text |-> name, span |-> at]
Punct(ch, at) == [kind |-> "punct", text |-> ch, span |-> at]
Group(lit, at) == [kind |-> "group", text |-> lit, span |-> at]
\* token streams that hold no diagnostic: nothing, or some other item
ForeignStreams ==
  {<<>>, <<Ident("struct", "A"), Ident("X", "A"), Punct(";", "A")>>}

\* ---------------------------------------------------------------- syn::Error
syn_Error_new(span, message) ==
  [message |-> message, start |-> span, end |-> span]
syn_Error_new_spanned(tokens, message) ==
  [message |-> message,
   start |-> IF tokens = <<>> THEN call_site ELSE tokens[1],
   end |-> IF tokens = <<>> THEN call_site ELSE tokens[Len(tokens)]]
\* a to_compile_error that renders nothing for an empty message
to_compile_error_skip_empty(err) ==
  IF err.message = "" THEN <<>>
  ELSE << Ident("compile_error", err.start),
          Punct("!", err.start),
          Group(err.message, err.end) >>
to_compile_error(err) ==
  << Ident("compile_error", err.start),
     Punct("!", err.start),
     Group(err.message, err.end) >>

\* ---------------------------------------------------------------- Error
\* struct Error(TokenStream)
Error(ts) == [f0 |-> ts]
From_syn_Error(err) == Error(to_compile_error(err))
\* an adoption that takes a stream only if it starts with a diagnostic
From_TokenStream_errors_only(err) ==
  IF err # <<>> /\ Head(err).text = "compile_error" THEN Error(err)
  ELSE Error(TokenStream_new)
From_TokenStream(err) == Error(err)
\* a conversion that keeps the first error only
Into_TokenStream_first(err) ==
  IF Len(err.f0) > 3 THEN SubSeq(err.f0, 1, 3) ELSE err.f0
Into_TokenStream(err) == err.f0

Error_new(span, message) == From_syn_Error(syn_Error_new(span, message))
Error_new_spanned(tokens, message) ==
  From_syn_Error(syn_Error_new_spanned(tokens, message))

\* ---------------------------------------------------------------- ErrorBuilder
\* struct ErrorBuilder(TokenStream)
ErrorBuilder(ts) == [f0 |-> ts]
\* a new() that starts from a placeholder error
ErrorBuilder_new_placeholder ==
  ErrorBuilder(to_compile_error(syn_Error_new(call_site, "")))
ErrorBuilder_new == ErrorBuilder(TokenStream_new)
Error_builder == ErrorBuilder_new

\* a with_error that leaves a mark for an Error without tokens
with_error_marks_empty(self, error) ==
  IF Into_TokenStream(error) = <<>>
  THEN ErrorBuilder(self.f0 \o <<Punct(";", call_site)>>)
  ELSE ErrorBuilder(self.f0 \o Into_TokenStream(error))
\* a with_error that starts over from the new error
with_error_replace(self, error) == ErrorBuilder(Into_TokenStream(error))
\* a with_error that puts the new error in front
with_error_front(self, error) ==
  ErrorBuilder(Into_TokenStream(error) \o self.f0)
with_error(self, error) == ErrorBuilder(self.f0 \o Into_TokenStream(error))
push(self, error) == with_error(self, error)
with(self, span, message) == with_error(self, Error_new(span, message))
\* a with_spanned that reports at the call site, whatever the tokens
with_spanned_call_site(self, tokens, message) ==
  with_error(self, Error_new(call_site, message))
with_spanned(self, tokens, message) ==
  with_error(self, Error_new_spanned(tokens, message))
\* a with_spans that pushes one error more, for the (empty) rest of the items
RECURSIVE with_spans_extra(_, _, _)
with_spans_extra(self, tokens, message) ==
  IF tokens = <<>> THEN with_spanned(self, <<>>, message)
  ELSE with_spans_extra(with_spanned(self, Head(tokens), message),
                        Tail(tokens), message)
RECURSIVE with_spans(_, _, _)
with_spans(self, tokens, message) ==
  IF tokens = <<>> THEN self
  ELSE with_spans(with_spanned(self, Head(tokens), message),
                  Tail(tokens), message)
\* an is_empty that looks for errors, not for tokens
is_empty_no_errors(self) ==
  \A i \in 1..Len(self.f0) : self.f0[i].text # "compile_error"
is_empty(self) == self.f0 = <<>>
\* a build that hands out the errors and keeps a copy of the first one
build_keep_first(self) ==
  LET one == Len(to_compile_error(syn_Error_new(call_site, ""))) IN
  [self |-> ErrorBuilder(SubSeq(self.f0, 1,
                                IF Len(self.f0) < one THEN Len(self.f0) ELSE one)),
   ret |-> Error(self.f0)]
\* a build that clones the stream and leaves it in place
build_keep(self) == [self |-> self, ret |-> Error(self.f0)]
\* std::mem::take: the old stream is returned, the default one left behind
build(self) == [self |-> ErrorBuilder(TokenStream_new), ret |-> Error(self.f0)]
\* a build_err that has nothing to fail with when the builder is empty
build_err_if_any(self) ==
  IF is_empty(self) THEN [self |-> self, ret |-> [kind |-> "Ok"]]
  ELSE [self |-> build(self).self,
        ret |-> [kind |-> "Err", err |-> build(self).ret]]
build_err(self) ==
  LET b == build(self) IN [self |-> b.self, ret |-> [kind |-> "Err", err |-> b.ret]]
\* an ok_or_build that reports the errors and keeps them
ok_or_build_stuck(self) ==
  IF is_empty(self) THEN [self |-> self, ret |-> [kind |-> "Ok"]]
  ELSE [self |-> self, ret |-> [kind |-> "Err", err |-> Error(self.f0)]]
\* an ok_or_build with the test the wrong way round
ok_or_build_inverted(self) ==
  IF ~is_empty(self) THEN [self |-> self, ret |-> [kind |-> "Ok"]]
  ELSE build_err(self)
ok_or_build(self) ==
  IF is_empty(self) THEN [self |-> self, ret |-> [kind |-> "Ok"]]
  ELSE build_err(self)

\* a new_from_spans that takes the span of the first item only
Error_new_from_spans_first(tokens, message) ==
  IF tokens = <<>> THEN Error(TokenStream_new)
  ELSE Error_new_spanned(Head(tokens), message)
Error_new_from_spans(tokens, message) ==
  build(with_spans(Error_builder, tokens, message)).ret
Error_err(span, message) == [kind |-> "Err", err |-> Error_new(span, message)]
Error_err_spanned(tokens, message) ==
  [kind |-> "Err", err |-> Error_new_spanned(tokens, message)]
Error_err_from_spans(tokens, message) ==
  [kind |-> "Err", err |-> Error_new_from_spans(tokens, message)]

\* ---------------------------------------------------------------- reading
\* The errors a token stream shows: its compile_error! invocations, in order,
\* each as the entry <<start span, end span, message>>.
Entry(start, end, message) == <<start, end, message>>
Message(entry) == entry[3]
IsError(ts) ==
  /\ Len(ts) >= 3
  /\ ts[1].kind = "ident" /\ ts[1].text = "compile_error"
  /\ ts[2].kind = "punct" /\ ts[2].text = "!"
  /\ ts[3].kind = "group"
RECURSIVE Entries(_)
Entries(ts) ==
  IF ts = <<>> THEN <<>>
  ELSE IF IsError(ts)
       THEN <<Entry(ts[1].span, ts[3].span, ts[3].text)>>
            \o Entries(SubSeq(ts, 4, Len(ts)))
       ELSE Entries(Tail(ts))
RECURSIVE PushAll(_, _)
PushAll(self, errors) ==
  IF errors = <<>> THEN self
  ELSE PushAll(with_error(self, Head(errors)), Tail(errors))

\* ---------------------------------------------------------------- state
VARIABLES
  builder,      \* the ErrorBuilder of the validation pass
  child,        \* the ErrorBuilder of a nested validation pass
  held,         \* an Error the caller holds and has not pushed yet
  ret,          \* what the last call returned
  pushed,       \* history: the entries pushed on builder since its last build
  anyPush,      \* history: a push was called on builder since its last build
  anyTokens,    \* history: such a push was given a diagnostic with tokens
  seg,          \* history: the last child result with entries pushed on builder,
                \* the entries pushed before it and after it
  childPushed,  \* history: the entries pushed on child since its last build
  built,        \* history: builder has been built at least once
  shadow,       \* a builder created anew at each build, given the same calls
  sret,         \* what the last call returned on shadow
  alt,          \* a builder given one new_spanned push per location instead
  kept,         \* the Errors of the last two builds, when the caller keeps
                \* them (latest first)
  keptOf,       \* history: for each kept Error, the entries pushed for it
  nested        \* history switch: seg is being recorded
vars == <<builder, child, held, ret, pushed, anyPush, anyTokens, seg,
          childPushed, built, shadow, sret, alt, kept, keptOf, nested>>

NoError == Error(TokenStream_new)
NoHeld == [err |-> NoError, child |-> FALSE, some |-> FALSE, entries |-> <<>>,
           parts |-> <<>>]
Held(e, entries, parts, fromChild) ==
  [err |-> e, child |-> fromChild, some |-> TRUE, entries |-> entries,
   parts |-> parts]
NoSeg == [on |-> FALSE, pre |-> <<>>, mid |-> <<>>, post |-> <<>>]
\* locs: the number of locations the call was given; seg: history, seg as it
\* was when the call took the errors out of the builder
Ret(op, kind, val, err, locs) ==
  [kind |-> kind, err |-> err, seg |-> NoSeg, op |-> op, val |-> val,
   locs |-> locs]
RetOf(op, res, sg) ==
  IF res.kind = "Ok" THEN Ret(op, "Ok", FALSE, NoError, 0)
  ELSE [Ret(op, res.kind, FALSE, res.err, 0) EXCEPT !.seg = sg]
TokensPerError == Len(to_compile_error(syn_Error_new(call_site, "")))
Budget(b, c, e) ==
  Len(b.f0) + Len(c.f0) + Len(e.f0) <= TokensPerError * MaxErrors

\* let mut error = Error::builder();  (and the same for the nested pass)
Init ==
  /\ builder = Error_builder
  /\ child = Error_builder
  /\ held = NoHeld
  /\ ret = Ret("builder", "builder", FALSE, NoError, 0)
  /\ pushed = <<>>
  /\ anyPush = FALSE
  /\ anyTokens = FALSE
  /\ seg = NoSeg
  /\ childPushed = <<>>
  /\ built = FALSE
  /\ shadow = Error_builder
  /\ sret = Ret("builder", "builder", FALSE, NoError, 0)
  /\ alt = Error_builder
  /\ kept = <<>>
  /\ keptOf = <<>>
  /\ nested = FALSE

\* ---- constructors of Error: the caller holds the result, bare or in an Err
\* The calls are those of one sequential caller.  The nested pass is a call:
\* once it has pushed, it runs until its build.  An Error the caller holds is
\* pushed (or replaced by another) before the next call on a builder.
Idle == is_empty(child)
Free == Idle /\ ~held.some
MakeHeld(op, kind, e, entries, parts) ==
  /\ Idle
  /\ Budget(builder, child, e)
  /\ held' = Held(e, entries, parts, FALSE)
  /\ ret' = Ret(op, kind, FALSE, e, Len(parts))
  /\ sret' = Ret(op, kind, FALSE, e, Len(parts))
  /\ UNCHANGED <<builder, child, pushed, anyPush, anyTokens, seg,
                 childPushed, built, shadow, alt, kept, keptOf, nested>>
\* what the caller expects of its arguments: one entry per location ...
EntryAt(span, m) == Entry(span, span, m)
EntryOn(t, m) ==
  Entry(IF t = <<>> THEN call_site ELSE t[1],
        IF t = <<>> THEN call_site ELSE t[Len(t)], m)
RECURSIVE SynEntries(_, _)
SynEntries(ts, m) ==
  IF ts = <<>> THEN <<>> ELSE <<EntryOn(Head(ts), m)>> \o SynEntries(Tail(ts), m)
\* ... and one single-location Error per location
RECURSIVE Singles(_, _)
Singles(ts, m) ==
  IF ts = <<>> THEN <<>>
  ELSE <<Error_new_spanned(Head(ts), m)>> \o Singles(Tail(ts), m)
New ==
  \E span \in Spans, m \in Messages :
    MakeHeld("new", "Error", Error_new(span, m), <<EntryAt(span, m)>>,
             <<Error_new(span, m)>>)
NewSpanned ==
  \E t \in ToTokens, m \in Messages :
    MakeHeld("new_spanned", "Error", Error_new_spanned(t, m),
             SynEntries(<<t>>, m), Singles(<<t>>, m))
NewFromSpans ==
  \E ts \in TokenIters, m \in Messages :
    MakeHeld("new_from_spans", "Error", Error_new_from_spans(ts, m),
             SynEntries(ts, m), Singles(ts, m))
FromTokenStream ==
  \E ts \in ForeignStreams :
    MakeHeld("from", "Error", From_TokenStream(ts), <<>>,
             <<From_TokenStream(ts)>>)
Err ==
  \E span \in Spans, m \in Messages :
    LET r == Error_err(span, m) IN
    MakeHeld("err", r.kind, r.err, <<EntryAt(span, m)>>, <<r.err>>)
ErrSpanned ==
  \E t \in ToTokens, m \in Messages :
    LET r == Error_err_spanned(t, m) IN
    MakeHeld("err_spanned", r.kind, r.err, SynEntries(<<t>>, m),
             Singles(<<t>>, m))
ErrFromSpans ==
  \E ts \in TokenIters, m \in Messages :
    LET r == Error_err_from_spans(ts, m) IN
    MakeHeld("err_from_spans", r.kind, r.err, SynEntries(ts, m),
             Singles(ts, m))

\* ---- pushes on builder (and the same call on shadow; alt gets the parts)
DoPush(op, kind, nb, ns, na, entries, tokens, fromChild, locs, nh) ==
  /\ Budget(nb, child, nh.err)
  /\ builder' = nb
  /\ shadow' = ns
  /\ alt' = na
  /\ held' = nh
  /\ pushed' = pushed \o entries
  /\ anyPush' = TRUE
  /\ anyTokens' = (anyTokens \/ tokens)
  /\ seg' = IF nested /\ fromChild /\ entries # <<>>
            THEN [on |-> TRUE, pre |-> pushed, mid |-> entries, post |-> <<>>]
            ELSE IF seg.on THEN [seg EXCEPT !.post = @ \o entries]
            ELSE seg
  /\ ret' = Ret(op, kind, FALSE, NoError, locs)
  /\ sret' = Ret(op, kind, FALSE, NoError, locs)
  /\ UNCHANGED <<child, childPushed, built, kept, keptOf, nested>>
With ==
  \E span \in Spans, m \in Messages :
    Free /\ DoPush("with", "ref", with(builder, span, m), with(shadow, span, m),
           with(alt, span, m), <<EntryAt(span, m)>>, TRUE, FALSE, 1, held)
WithSpanned ==
  \E t \in ToTokens, m \in Messages :
    Free /\ DoPush("with_spanned", "ref", with_spanned(builder, t, m),
           with_spanned(shadow, t, m), with_spanned(alt, t, m),
           SynEntries(<<t>>, m), TRUE, FALSE, 1, held)
WithSpans ==
  \E ts \in TokenIters, m \in Messages :
    Free /\ DoPush("with_spans", "ref", with_spans(builder, ts, m),
           with_spans(shadow, ts, m), PushAll(alt, Singles(ts, m)),
           SynEntries(ts, m), ts # <<>>, FALSE, Len(ts), held)
\* the held Error is moved into the call
WithError ==
  /\ held.some
  /\ DoPush("with_error", "ref", with_error(builder, held.err),
            with_error(shadow, held.err), PushAll(alt, held.parts),
            held.entries, held.err.f0 # <<>>, held.child, Len(held.parts),
            NoHeld)
Push ==
  /\ held.some
  /\ DoPush("push", "unit", push(builder, held.err), push(shadow, held.err),
            PushAll(alt, held.parts), held.entries, held.err.f0 # <<>>,
            held.child, Len(held.parts), NoHeld)

\* ---- queries and builds on builder
IsEmpty ==
  /\ Free
  /\ ret' = Ret("is_empty", "bool", is_empty(builder), NoError, 0)
  /\ sret' = Ret("is_empty", "bool", is_empty(shadow), NoError, 0)
  /\ UNCHANGED <<builder, child, held, pushed, anyPush, anyTokens, seg,
                 childPushed, built, shadow, alt, kept, keptOf, nested>>
\* r, s, a: the outcome [self, ret] of the call on builder, shadow and alt
Finish(op, r, s, a) ==
  LET taken == r.ret.kind # "Ok" IN
  /\ Free
  /\ builder' = r.self
  /\ ret' = RetOf(op, r.ret, seg)
  /\ sret' = RetOf(op, s.ret, seg)
  /\ shadow' = IF taken THEN Error_builder ELSE s.self
  /\ alt' = a.self
  /\ pushed' = IF taken THEN <<>> ELSE pushed
  /\ anyPush' = IF taken THEN FALSE ELSE anyPush
  /\ anyTokens' = IF taken THEN FALSE ELSE anyTokens
  /\ seg' = IF taken THEN NoSeg ELSE seg
  /\ built' = (built \/ taken)
  /\ UNCHANGED <<child, held, childPushed>>
AsError(b) == [self |-> b.self, ret |-> [kind |-> "Error", err |-> b.ret]]
\* the caller uses the result at once and lets it go
Build ==
  /\ Finish("build", AsError(build(builder)), AsError(build(shadow)),
            AsError(build(alt)))
  /\ UNCHANGED <<kept, keptOf, nested>>
BuildErr ==
  /\ Finish("build_err", build_err(builder), build_err(shadow), build_err(alt))
  /\ UNCHANGED <<kept, keptOf, nested>>
OkOrBuild ==
  /\ Finish("ok_or_build", ok_or_build(builder), ok_or_build(shadow),
            ok_or_build(alt))
  /\ UNCHANGED <<kept, keptOf, nested>>

\* ---- the nested pass
ChildWithSpanned ==
  \E t \in ToTokens, m \in Messages :
    /\ ~held.some
    /\ Budget(builder, with_spanned(child, t, m), held.err)
    /\ child' = with_spanned(child, t, m)
    /\ childPushed' = childPushed \o SynEntries(<<t>>, m)
    /\ ret' = Ret("child.with_spanned", "ref", FALSE, NoError, 1)
    /\ sret' = Ret("child.with_spanned", "ref", FALSE, NoError, 1)
    /\ UNCHANGED <<builder, held, pushed, anyPush, anyTokens, seg,
                   built, shadow, alt, kept, keptOf, nested>>
ChildBuild ==
  LET b == build(child) IN
  /\ ~held.some
  /\ child' = b.self
  /\ held' = Held(b.ret, childPushed, <<b.ret>>, TRUE)
  /\ childPushed' = <<>>
  /\ ret' = Ret("child.build", "Error", FALSE, b.ret, 0)
  /\ sret' = Ret("child.build", "Error", FALSE, b.ret, 0)
  /\ UNCHANGED <<builder, pushed, anyPush, anyTokens, seg, built,
                 shadow, alt, kept, keptOf, nested>>

Next ==
  \/ New \/ NewSpanned \/ NewFromSpans \/ FromTokenStream
  \/ Err \/ ErrSpanned \/ ErrFromSpans
  \/ With \/ WithSpanned \/ WithSpans \/ WithError \/ Push
  \/ IsEmpty \/ Build \/ BuildErr \/ OkOrBuild
  \/ ChildWithSpanned \/ ChildBuild
Spec == Init /\ [][Next]_vars

\* ---- the nested pass with seg recorded: the Errors pushed with with_error
\* and push are the results of the nested builder
InitNested ==
  /\ builder = Error_builder
  /\ child = Error_builder
  /\ held = NoHeld
  /\ ret = Ret("builder", "builder", FALSE, NoError, 0)
  /\ pushed = <<>>
  /\ anyPush = FALSE
  /\ anyTokens = FALSE
  /\ seg = NoSeg
  /\ childPushed = <<>>
  /\ built = FALSE
  /\ shadow = Error_builder
  /\ sret = Ret("builder", "builder", FALSE, NoError, 0)
  /\ alt = Error_builder
  /\ kept = <<>>
  /\ keptOf = <<>>
  /\ nested = TRUE
NextNested ==
  \/ With \/ WithSpanned \/ WithSpans \/ WithError \/ Push
  \/ IsEmpty
  \/ Build \/ BuildErr \/ OkOrBuild
  \/ ChildWithSpanned \/ ChildBuild
SpecNested == InitNested /\ [][NextNested]_vars

\* ---- a caller that keeps the Errors of its last two builds while it goes on
\* using the builder
RECURSIVE KeptLen(_)
KeptLen(errors) ==
  IF errors = <<>> THEN 0 ELSE Len(Head(errors).f0) + KeptLen(Tail(errors))
\* the size bound, over the builder and the kept Errors together
KeptBudget == Len(builder'.f0) + KeptLen(kept) <= TokensPerError * MaxErrors
Latest(s) == IF s = <<>> THEN <<>> ELSE <<Head(s)>>
Keep ==
  /\ UNCHANGED nested
  /\ IF ret'.kind = "Ok" THEN UNCHANGED <<kept, keptOf>>
     ELSE /\ kept' = <<ret'.err>> \o Latest(kept)
          /\ keptOf' = <<pushed>> \o Latest(keptOf)
KeepWith == With /\ KeptBudget
KeepWithSpanned == WithSpanned /\ KeptBudget
KeepWithSpans == WithSpans /\ KeptBudget
KeepBuild ==
  /\ Finish("build", AsError(build(builder)), AsError(build(shadow)),
            AsError(build(alt)))
  /\ Keep
KeepBuildErr ==
  /\ Finish("build_err", build_err(builder), build_err(shadow), build_err(alt))
  /\ Keep
KeepOkOrBuild ==
  /\ Finish("ok_or_build", ok_or_build(builder), ok_or_build(shadow),
            ok_or_build(alt))
  /\ Keep
NextKeep ==
  \/ KeepWith \/ KeepWithSpanned \/ KeepWithSpans
  \/ IsEmpty
  \/ KeepBuild \/ KeepBuildErr \/ KeepOkOrBuild
SpecKeep == Init /\ [][NextKeep]_vars

\* ================================================================ properties
Built(r) == Entries(r.err.f0)

\* C1: build() returns exactly the entries of the pushes since creation or the
\* last build, in push order, a multi-location push as one entry per location
\* in the order given; nothing is sorted, merged, deduplicated or dropped.
C1_OrderPreserved ==
  [][ret'.op = "build" =>
       /\ ret'.kind = "Error"
       /\ Built(ret') = pushed]_vars
\* build() returned three entries, the first pushed twice
C1_Witness ==
  /\ ret.op = "build"
  /\ Len(Built(ret)) = 3
  /\ Built(ret)[1] = Built(ret)[2]
  /\ Built(ret)[2] # Built(ret)[3]

\* C2 as stated: is_empty() is true iff no push was called since creation or
\* the last build.
C2_Original == ret.op = "is_empty" => (ret.val <=> ~anyPush)
\* C2 amended: is_empty() is true iff no push since creation or the last
\* build was given a diagnostic that holds tokens.
C2_EmptyIffNoTokens == ret.op = "is_empty" => (ret.val <=> ~anyTokens)
\* is_empty() answered true although pushes were made (of empty diagnostics)
C2_Witness == ret.op = "is_empty" /\ ret.val /\ anyPush

\* C3: after a build() the builder is empty and behaves as a new one: every
\* later call leaves it in the state, and returns the result, that the same
\* calls give on a builder created at that build.
C3_FreshAfterBuild ==
  built => /\ builder = shadow
           /\ ret = sret
           /\ (ret.op = "build" => is_empty(builder))
\* after a build, errors were pushed again and is_empty() was asked
C3_Witness ==
  /\ built
  /\ anyTokens
  /\ Len(pushed) = 2
  /\ ret.op = "is_empty"
  /\ ~ret.val

\* C4: ok_or_build() returns Ok(()) exactly when is_empty() holds at the call
\* and then leaves the builder unchanged; otherwise it returns Err with
\* exactly the entries pushed since the last build, in push order, and leaves
\* the builder empty.
C4_OkOrBuild ==
  [][ret'.op = "ok_or_build" =>
       IF is_empty(builder)
       THEN ret'.kind = "Ok" /\ builder' = builder
       ELSE /\ ret'.kind = "Err"
            /\ ret'.err.f0 = builder.f0
            /\ Built(ret') = pushed
            /\ is_empty(builder')]_vars
\* ok_or_build() failed with three entries: one message, then another at two
\* locations
C4_Witness ==
  /\ ret.op = "ok_or_build"
  /\ ret.kind = "Err"
  /\ Len(Built(ret)) = 3
  /\ Message(Built(ret)[1]) # Message(Built(ret)[2])
  /\ Message(Built(ret)[2]) = Message(Built(ret)[3])
  /\ Built(ret)[2] # Built(ret)[3]

\* C5: build_err() returns Err in every state, the empty one included; the
\* Err carries the value build() returns in that state, and the builder is
\* empty afterwards.
C5_BuildErr ==
  [][ret'.op = "build_err" =>
       /\ ret'.kind = "Err"
       /\ ret'.err = build(builder).ret
       /\ builder' = build(builder).self
       /\ is_empty(builder')]_vars
\* build_err() failed on an empty builder
C5_Witness ==
  /\ ret.op = "build_err"
  /\ ret.kind = "Err"
  /\ ret.err.f0 = <<>>

\* C6 as stated: a multi-location construction from no locations aborts.
MultiOps == {"new_from_spans", "err_from_spans", "with_spans"}
C7_ConstructionEquivalence ==
  /\ builder = alt
  /\ build(builder).ret = build(alt).ret
\* a two-location diagnostic was pushed with with_error after another error
C7_Witness ==
  /\ ret.op = "with_error"
  /\ ret.locs = 2
  /\ ~seg.on
  /\ Len(pushed) = 3
  /\ pushed[2] # pushed[3]

\* C8: when the build() result of a nested builder is pushed with
\* with_error/push, build() returns the entries pushed before it, then the
\* nested builder's entries in their push order, then the entries pushed after.
C8_Composition ==
  (ret.op = "build" /\ ret.seg.on) =>
    Built(ret) = ret.seg.pre \o ret.seg.mid \o ret.seg.post
\* build() returned an entry and then two different nested ones
C8_Witness ==
  /\ ret.op = "build"
  /\ ret.seg.on
  /\ Len(ret.seg.pre) = 1
  /\ Len(ret.seg.mid) = 2
  /\ ret.seg.mid[1] # ret.seg.mid[2]
  /\ ret.seg.pre[1] # ret.seg.mid[1]

\* C9: with(span, m), with_spanned(t, m) and with_spans(ts, m) have the effect
\* of with_error on Error::new(span, m), Error::new_spanned(t, m) and
\* Error::new_from_spans(ts, m), for an empty ts too, in every state where the
\* caller can make the call.
C9_Convenience ==
  Free => \A m \in Messages :
    /\ \A span \in Spans :
         with(builder, span, m) = with_error(builder, Error_new(span, m))
    /\ \A t \in ToTokens :
         with_spanned(builder, t, m)
           = with_error(builder, Error_new_spanned(t, m))
    /\ \A ts \in TokenIters :
         with_spans(builder, ts, m)
           = with_error(builder, Error_new_from_spans(ts, m))
\* with_spans was called with two locations on a builder with an error
C9_Witness ==
  /\ ret.op = "with_spans"
  /\ ret.locs = 2
  /\ Len(pushed) = 3

\* C10: a builder from Error::builder() is empty: is_empty() is true,
\* ok_or_build() returns Ok(()) and changes nothing, build() returns a
\* diagnostic with no entries and leaves the builder empty.
C10_EmptyIdentity ==
  [][(~anyPush /\ ~built) =>
       /\ is_empty(builder)
       /\ ret'.op = "is_empty" => ret'.val
       /\ ret'.op = "ok_or_build" => ret'.kind = "Ok" /\ builder' = builder
       /\ ret'.op = "build" =>
            /\ ret'.kind = "Error"
            /\ ret'.err.f0 = <<>>
            /\ is_empty(builder')]_vars
\* ok_or_build() was called on the builder before any push or build
C10_Witness ==
  /\ ~anyPush
  /\ ~built
  /\ ret.op = "ok_or_build"
  /\ ret.kind = "Ok"

\* C11: a push leaves what was accumulated as a prefix of the new content;
\* is_empty() and an ok_or_build() that returns Ok leave the content as it
\* is; entries are removed by build(), build_err() and a failing
\* ok_or_build() only, and then all of them at once.
IsPrefix(a, b) == Len(a) <= Len(b) /\ SubSeq(b, 1, Len(a)) = a
PushOps == {"with", "with_spanned", "with_spans", "with_error", "push"}
Taking(r) ==
  r.op = "build" \/ r.op = "build_err" \/ (r.op = "ok_or_build" /\ r.kind = "Err")
C11_AppendOnly ==
  [][/\ ret'.op \in PushOps =>
          /\ IsPrefix(builder.f0, builder'.f0)
          /\ IsPrefix(Entries(builder.f0), Entries(builder'.f0))
     /\ ret'.op = "is_empty" => builder' = builder
     /\ (ret'.op = "ok_or_build" /\ ret'.kind = "Ok") => builder' = builder
     /\ Taking(ret') => builder'.f0 = <<>>
     /\ ~IsPrefix(builder.f0, builder'.f0) => Taking(ret')]_vars
\* with() was called on a builder that held two different errors
C11_Witness ==
  /\ ret.op = "with"
  /\ Len(pushed) = 3
  /\ pushed[1] # pushed[2]
  /\ Len(Entries(builder.f0)) = 3

\* C12: the builder has no used-up state.  Whenever the caller is between
\* calls, is_empty, build, build_err and ok_or_build can be called, and so can
\* every push that fits the bound; right after a build, build_err or failing
\* ok_or_build every push can be called again, whatever was collected before;
\* a held Error can always be pushed.  Every call returns one of its
\* declared results, and a builder that is_empty is the fresh builder.
RetKinds == {"builder", "Error", "Err", "Ok", "ref", "unit", "bool"}
Room(n) == Len(builder.f0) + n * TokensPerError <= TokensPerError * MaxErrors
C12_NoUsedState ==
  /\ ret.kind \in RetKinds
  /\ is_empty(builder) <=> builder = ErrorBuilder_new
  /\ Free => /\ ENABLED IsEmpty
             /\ ENABLED Build
             /\ ENABLED BuildErr
             /\ ENABLED OkOrBuild
             /\ ENABLED WithSpans
  /\ (Free /\ Room(1)) => ENABLED With /\ ENABLED WithSpanned
  /\ (Free /\ Taking(ret)) => Room(MaxErrors)
  /\ held.some => ENABLED WithError /\ ENABLED Push
\* ok_or_build has just reported a full builder, and with() can be called
C12_Witness ==
  /\ ret.op = "ok_or_build"
  /\ ret.kind = "Err"
  /\ Len(Built(ret)) = MaxErrors
  /\ Free
  /\ ENABLED With
  /\ ENABLED OkOrBuild

\* C13: Error::new(location, "") returns an Error with exactly one entry, at
\* that location and with the empty message; pushing it with with_error or
\* push makes the builder non-empty and appends that entry, and build()
\* returns the entries in the order pushed, this one at its place.
NewEmptyMessage ==
  ret.op = "new" /\ held.some /\ Message(held.entries[1]) = ""
C13_EmptyMessage ==
  [][/\ NewEmptyMessage =>
          /\ Len(held.entries) = 1
          /\ \E span \in Spans : Entries(ret.err.f0) = <<Entry(span, span, "")>>
          /\ Entries(ret.err.f0) = held.entries
          /\ held.err = ret.err
     /\ (NewEmptyMessage /\ ret'.op \in {"with_error", "push"}) =>
          /\ ~is_empty(builder')
          /\ Entries(builder'.f0) = Entries(builder.f0) \o held.entries
          /\ pushed' = pushed \o held.entries
     /\ Taking(ret') => Built(ret') = pushed]_vars
\* an Error::new with the empty message was pushed second, after an entry
\* with a message
C13_Witness ==
  /\ ret.op = "push"
  /\ ret.locs = 1
  /\ Len(pushed) = 2
  /\ pushed[2] = EntryAt("A", "")
  /\ Message(pushed[1]) = "m"
  /\ Entries(builder.f0) = pushed
  /\ ~is_empty(builder)

\* C14: pushing, with with_error or push, an Error that holds nothing (the
\* build() of an empty builder, or the Error made from an empty TokenStream)
\* leaves the builder exactly as it was; a builder that was empty is still
\* empty: as long as nothing else was pushed, is_empty() returns true and
\* ok_or_build() returns Ok.
HeldNothing == held.some /\ Into_TokenStream(held.err) = TokenStream_new
C14_EmptyPush ==
  [][/\ (HeldNothing /\ ret'.op \in {"with_error", "push"}) =>
          /\ builder' = builder
          /\ is_empty(builder') = is_empty(builder)
          /\ ok_or_build(builder').ret.kind = ok_or_build(builder).ret.kind
     /\ (ret'.op = "is_empty" /\ ~anyTokens) => ret'.val
     /\ (ret'.op = "ok_or_build" /\ ~anyTokens) =>
          ret'.kind = "Ok" /\ builder' = builder]_vars
\* with_error was called, and nothing but Errors without tokens was pushed
C14_Witness ==
  /\ ret.op = "with_error"
  /\ anyPush
  /\ ~anyTokens
  /\ is_empty(builder)
  /\ ok_or_build(builder).ret.kind = "Ok"

\* C15: an Error returned by build(), build_err() or a failing ok_or_build()
\* does not change afterwards: while the caller keeps it, later pushes and
\* builds leave it as it was returned.  Two successive builds split the
\* pushes between them: the earlier Error holds the entries pushed before the
\* earlier build, the later Error those pushed between the two, and no entry
\* is in both or in neither.
RECURSIVE AllAsReturned(_, _)
AllAsReturned(errors, entries) ==
  \/ errors = <<>> /\ entries = <<>>
  \/ /\ errors # <<>> /\ entries # <<>>
     /\ Entries(Head(errors).f0) = Head(entries)
     /\ AllAsReturned(Tail(errors), Tail(entries))
C15_ReturnedIndependent ==
  [][/\ AllAsReturned(kept, keptOf)
     /\ ~Taking(ret') => kept' = kept
     /\ Taking(ret') =>
          /\ Built(ret') = pushed
          /\ kept' = <<ret'.err>> \o Latest(kept)
          /\ kept # <<>> =>
               Entries(kept'[2].f0) \o Entries(kept'[1].f0) = keptOf[1] \o pushed
     /\ AllAsReturned(kept', keptOf')]_vars
\* two builds in a row returned one and then two entries, the same entry
\* pushed for both
C15_Witness ==
  /\ Taking(ret)
  /\ Len(kept) = 2
  /\ ret.err = kept[1]
  /\ Len(Entries(kept[2].f0)) = 1
  /\ Len(Entries(kept[1].f0)) = 2
  /\ Entries(kept[1].f0)[1] = Entries(kept[2].f0)[1]
  /\ is_empty(builder)

\* C16: the conversions between Error and TokenStream lose nothing.  An Error
\* turned into a TokenStream and back is the same Error, with the same entries
\* in the same order; a TokenStream turned into an Error and back is the same
\* TokenStream, whether or not its tokens are a diagnostic.
Streams == ForeignStreams \cup {builder.f0, child.f0, held.err.f0, ret.err.f0}
C16_Lossless ==
  /\ held.some =>
       /\ From_TokenStream(Into_TokenStream(held.err)) = held.err
       /\ Entries(From_TokenStream(Into_TokenStream(held.err)).f0) = held.entries
  /\ Taking(ret) =>
       /\ From_TokenStream(Into_TokenStream(ret.err)) = ret.err
       /\ Entries(From_TokenStream(Into_TokenStream(ret.err)).f0) = Built(ret)
  /\ \A ts \in Streams : Into_TokenStream(From_TokenStream(ts)) = ts
\* the caller holds an Error of two different entries next to a builder with
\* an entry of its own
C16_Witness ==
  /\ held.some
  /\ Len(held.entries) = 2
  /\ held.entries[1] # held.entries[2]
  /\ Len(Entries(builder.f0)) = 1
  /\ From_TokenStream(Into_TokenStream(held.err)) = held.err
  /\ Into_TokenStream(From_TokenStream(held.err.f0)) = held.err.f0
====
